---- MODULE Spec2Model ----
(***************************************************************************)
(* Model of dhruv1705/lifeimprove:                                         *)
(*   - the goal progress endpoint, PUT /api/goals/{id}/progress            *)
(*     (src/api/goals/[id]/progress.js), wrapped by verifyToken;           *)
(*   - the schedule screen (src/unnamed/part_000, ScheduleScreen).         *)
(* An optional value (a body field that may be undefined, a document that  *)
(* may be null) is a set: {} when absent, {v} when present.                *)
(***************************************************************************)
EXTENDS Integers, Sequences, FiniteSets, Bags, TLC

(***************************************************************************)
(* Bounds and input sets                                                   *)
(***************************************************************************)
\* currentValue inputs are 0..MaxValue
MaxValue == 1
\* the days the screen can select are 1..MaxDate
MaxDate == 2
\* service calls awaiting their result at once
MaxInFlight == 2
\* dialogs open or queued at once
MaxAlerts == 1
\* block ids generated in one behaviour
MaxGenerated == 1

Users == {"u1", "u2"}
\* a token is absent, invalid, or valid for one user
Tokens == {"absent", "invalid"} \cup Users
GoalIds == {"g1", "g2"}
\* "g0" never names a goal
RequestIds == GoalIds \cup {"g0"}
Methods == {"OPTIONS", "GET", "PUT"}
ProgressInputs == {-20, 50, 150}
ValueInputs == 0..MaxValue
\* the percentages the persistence hook may derive for numeric/habit goals
DerivedProgress == {0, 100}
\* every stored goal belongs to u1; u2 is the other user
OwnerOf(g) == "u1"
Slots == {"r1", "r2"}

Bodies == [currentValue : {{}} \cup {{v} : v \in ValueInputs},
           progress : {{}} \cup {{p} : p \in ProgressInputs}]

\* the endpoint: the goal collection and the requests being handled
VARIABLES db, reqs

\* the schedule screen's state (useState), the dialogs on display, the
\* service calls awaiting their result, and the schedules the server holds
VARIABLES selectedDate, schedule, scheduleId, loading, refreshing,
          showAddModal, showDatePicker, newTask, alerts, net, schedules, generated

serverVars == <<db, reqs>>
screenVars == <<selectedDate, schedule, scheduleId, loading, refreshing,
                showAddModal, showDatePicker, newTask, alerts, net, schedules,
                generated>>
vars == <<serverVars, screenVars>>

(***************************************************************************)
(* Pure parts of the handler                                               *)
(***************************************************************************)
Range(f) == {f[i] : i \in DOMAIN f}
Min(a, b) == IF a < b THEN a ELSE b
Max(a, b) == IF a > b THEN a ELSE b

\* Math.min(Math.max(progress, 0), 100)
ClampNoFloor(p) == Min(p, 100)
Clamp(p) == Min(Max(p, 0), 100)

\* Goal.findOne({ _id: id, userId }): the document, or null
FindOneById(store, id, userId) ==
    IF id \in DOMAIN store THEN {store[id]} ELSE {}
FindOne(store, id, userId) ==
    IF id \in DOMAIN store /\ store[id].userId = userId THEN {store[id]} ELSE {}

\* the in-memory update of the loaded document, by goal type
ApplyUpdateAssignsProgress(goal, body) ==
    IF goal.type \in {"numeric", "habit"}
    THEN [goal EXCEPT
            !.currentValue = IF body.currentValue # {}
                             THEN CHOOSE v \in body.currentValue : TRUE ELSE @,
            !.progress = IF body.progress # {}
                         THEN Clamp(CHOOSE p \in body.progress : TRUE) ELSE @]
    ELSE IF goal.type = "milestone" /\ body.progress # {}
    THEN [goal EXCEPT !.progress = Clamp(CHOOSE p \in body.progress : TRUE)]
    ELSE goal
ApplyUpdate(goal, body) ==
    IF goal.type \in {"numeric", "habit"}
    THEN IF body.currentValue # {}
         THEN [goal EXCEPT !.currentValue = CHOOSE v \in body.currentValue : TRUE]
         ELSE goal
    ELSE IF goal.type = "milestone"
    THEN IF body.progress # {}
         THEN [goal EXCEPT !.progress = Clamp(CHOOSE p \in body.progress : TRUE)]
         ELSE goal
    ELSE goal

\* the paths of the loaded document that the handler changed (what save() writes)
ModifiedPaths(loaded, updated) ==
    {f \in {"currentValue", "progress"} : updated[f] # loaded[f]}

(***************************************************************************)
(* Responses                                                               *)
(***************************************************************************)
NoResponse ==
    [status |-> 0, cors |-> FALSE, error |-> "", details |-> "",
     message |-> "", goal |-> {}]
\* res.status(200).end()
PreflightResponse == [NoResponse EXCEPT !.status = 200, !.cors = TRUE]
MethodNotAllowed ==
    [NoResponse EXCEPT !.status = 405, !.cors = TRUE,
                       !.error = "Method not allowed"]
NotFound ==
    [NoResponse EXCEPT !.status = 404, !.cors = TRUE, !.error = "Goal not found"]
Updated(goal) ==
    [NoResponse EXCEPT !.status = 200, !.cors = TRUE,
                       !.message = "Progress updated successfully",
                       !.goal = {goal}]
ServerErrorNoDetails(msg) ==
    [NoResponse EXCEPT !.status = 500, !.cors = TRUE, !.error = "Server error"]
ServerError(msg) ==
    [NoResponse EXCEPT !.status = 500, !.cors = TRUE, !.error = "Server error",
                       !.details = msg]
\* the middleware's short circuit
AuthError ==
    [NoResponse EXCEPT !.status = 401, !.error = "Unauthorized"]

ConnectErrors == {"connect ECONNREFUSED"}
FindErrors == {"lookup timed out"}
SaveErrors == {"write timed out"}

(***************************************************************************)
(* One request: its inputs, the handler's locals and its response          *)
(***************************************************************************)
\* calls: the database operations the handler has issued, in order;
\* raised: the error thrown inside the try block, if any
Idle ==
    [pc |-> "idle", method |-> "", token |-> "", id |-> "",
     body |-> [currentValue |-> {}, progress |-> {}],
     userId |-> {}, loaded |-> {}, updated |-> {}, calls |-> <<>>,
     raised |-> {}, res |-> NoResponse]

InitialGoal(g, t) ==
    [userId |-> OwnerOf(g), type |-> t, currentValue |-> 1, progress |-> 50]

(***************************************************************************)
(* The schedule screen (ScheduleScreen) and the schedule service it calls  *)
(***************************************************************************)
Dates == 1..MaxDate
DateStrings == <<"2025-01-01", "2025-01-02", "2025-01-03", "2025-01-04">>
ScheduleIdNames == <<"s1", "s2", "s3", "s4">>
BlockIdNames == <<"n1", "n2", "n3">>
\* scheduleService.formatDateForAPI
FormatDateForAPI(d) == DateStrings[d]
\* the id the server gives the schedule of a date
ScheduleIdOf(dateStr) ==
    ScheduleIdNames[CHOOSE d \in 1..Len(DateStrings) : DateStrings[d] = dateStr]
\* scheduleService.generateBlockId, for the n-th block generated
GenerateBlockId(n) == BlockIdNames[n]

\* what the form's inputs can be set to; a title is a sequence of characters
Titles == {<<>>, <<" ", " ">>, <<" ", "a">>}
Categories == {"personal", "mental"}
\* the time fields are only ever retyped as they are
StartTimes == {"09:00"}
EndTimes == {"10:00"}

RECURSIVE TrimStart(_)
TrimStart(t) == IF t # <<>> /\ Head(t) = " " THEN TrimStart(Tail(t)) ELSE t
RECURSIVE TrimEnd(_)
TrimEnd(t) ==
    IF t # <<>> /\ t[Len(t)] = " " THEN TrimEnd(SubSeq(t, 1, Len(t) - 1)) ELSE t
\* String.prototype.trim
Trim(t) == TrimEnd(TrimStart(t))

RECURSIVE SelectBlocks(_, _)
\* blocks.filter(b => b.id !== blockId)
SelectBlocks(blocks, blockId) ==
    IF blocks = <<>> THEN <<>>
    ELSE IF Head(blocks).id = blockId THEN SelectBlocks(Tail(blocks), blockId)
    ELSE <<Head(blocks)>> \o SelectBlocks(Tail(blocks), blockId)
BlockIds(blocks) == {blocks[i].id : i \in DOMAIN blocks}
\* schedule.find(b => b.id === blockId)
FindBlock(blocks, blockId) ==
    blocks[CHOOSE i \in DOMAIN blocks :
             /\ blocks[i].id = blockId
             /\ \A j \in DOMAIN blocks : blocks[j].id = blockId => i <= j]

DefaultTask ==
    [title |-> <<>>, category |-> "personal", startTime |-> "09:00",
     endTime |-> "10:00"]

\* the block addTask builds from the form
NewBlock(task, id) ==
    [id |-> id, title |-> task.title, category |-> task.category,
     startTime |-> task.startTime, endTime |-> task.endTime, completed |-> FALSE]

\* dialogs (Alert.alert)
ErrorAlert(message) ==
    [kind |-> "error", message |-> message, blockId |-> "", scheduleId |-> ""]
ConfirmDelete(blockId, id) ==
    [kind |-> "confirm", message |-> "Are you sure you want to delete this task?",
     blockId |-> blockId, scheduleId |-> id]

\* service calls awaiting their result, with the values each call captured
NoCall ==
    [op |-> "", date |-> "", scheduleId |-> "", blockId |-> "", blocks |-> <<>>,
     completed |-> FALSE]
GetScheduleCall(dateStr) == [NoCall EXCEPT !.op = "getSchedule", !.date = dateStr]
UpdateScheduleCall(dateStr, blocks) ==
    [NoCall EXCEPT !.op = "updateSchedule", !.date = dateStr, !.blocks = blocks]
UpdateScheduleBlockCall(id, blockId, completed) ==
    [NoCall EXCEPT !.op = "updateScheduleBlock", !.scheduleId = id,
                   !.blockId = blockId, !.completed = completed]
DeleteScheduleBlockCall(id, blockId) ==
    [NoCall EXCEPT !.op = "deleteScheduleBlock", !.scheduleId = id,
                   !.blockId = blockId]

\* the server's schedules: per date string, {} or {[_id, blocks]}
InitialBlock ==
    [id |-> "b1", title |-> <<"a">>, category |-> "personal",
     startTime |-> "09:00", endTime |-> "10:00", completed |-> FALSE]
InitialStore ==
    [k \in {FormatDateForAPI(d) : d \in Dates} |->
       IF k = FormatDateForAPI(1)
       THEN {[_id |-> ScheduleIdOf(k), blocks |-> <<InitialBlock>>]} ELSE {}]
\* the date whose schedule has this id, if any
DatesOfId(st, id) == {k \in DOMAIN st : st[k] # {} /\ \E sc \in st[k] : sc._id = id}
SetCompleted(blocks, blockId, completed) ==
    [i \in DOMAIN blocks |->
       IF blocks[i].id = blockId THEN [blocks[i] EXCEPT !.completed = completed]
       ELSE blocks[i]]

\* the screen as mounted: loading, with the first fetch on its way
ScreenInit ==
    /\ selectedDate = 1
    /\ schedule = <<>>
    /\ scheduleId = ""
    /\ loading = TRUE
    /\ refreshing = FALSE
    /\ showAddModal = FALSE
    /\ showDatePicker = FALSE
    /\ newTask = DefaultTask
    /\ alerts = <<>>
    /\ net = SetToBag({GetScheduleCall(FormatDateForAPI(1))})
    /\ schedules = InitialStore
    /\ generated = 0

\* net with one more call awaiting its result
Sent(call) == net (+) SetToBag({call})
\* net with one call settled
Settled(call) == net (-) SetToBag({call})

\* the list is on display and no dialog or modal covers it
ListUsable == ~loading /\ alerts = <<>> /\ ~showAddModal
CanCall == BagCardinality(net) < MaxInFlight
CanAlert == Len(alerts) < MaxAlerts

\* fetchSchedule, up to `await scheduleService.getSchedule(dateStr)`
FetchSchedule(d) == net' = Sent(GetScheduleCall(FormatDateForAPI(d)))

\* fetchSchedule after a getSchedule that resolved with data
OnFetched(blocks, id) ==
    /\ schedule' = (IF blocks = {} THEN <<>> ELSE CHOOSE b \in blocks : TRUE)
    /\ scheduleId' = (IF id = {} THEN "" ELSE CHOOSE x \in id : TRUE)
    /\ loading' = FALSE
    /\ refreshing' = FALSE
    /\ UNCHANGED alerts

\* fetchSchedule's catch and finally
OnFetchErrorClears ==
    /\ alerts' = Append(alerts, ErrorAlert("Failed to load schedule"))
    /\ schedule' = <<>>
    /\ scheduleId' = ""
    /\ loading' = FALSE
    /\ refreshing' = FALSE
OnFetchError ==
    /\ alerts' = Append(alerts, ErrorAlert("Failed to load schedule"))
    /\ loading' = FALSE
    /\ refreshing' = FALSE
    /\ UNCHANGED <<schedule, scheduleId>>

GetScheduleResolves(c) ==
    /\ BagIn(c, net) /\ c.op = "getSchedule"
    /\ net' = Settled(c)
    /\ OnFetched({sc.blocks : sc \in schedules[c.date]},
                 {sc._id : sc \in schedules[c.date]})
    /\ UNCHANGED <<selectedDate, showAddModal, showDatePicker, newTask,
                   schedules, generated>>

GetScheduleRejects(c) ==
    /\ BagIn(c, net) /\ c.op = "getSchedule"
    /\ CanAlert
    /\ net' = Settled(c)
    /\ OnFetchError
    /\ UNCHANGED <<selectedDate, showAddModal, showDatePicker, newTask,
                   schedules, generated>>

\* onRefresh
OnRefresh ==
    /\ ListUsable /\ CanCall
    /\ refreshing' = TRUE
    /\ FetchSchedule(selectedDate)
    /\ UNCHANGED <<selectedDate, schedule, scheduleId, loading,
                   showAddModal, showDatePicker, newTask, alerts, schedules, generated>>

\* navigateDate, and the effect that fetches for the new date
NavigateDate(direction) ==
    /\ ListUsable /\ CanCall
    /\ LET newDate == selectedDate + (IF direction = "next" THEN 1 ELSE -1)
       IN /\ newDate \in Dates
          /\ selectedDate' = newDate
          /\ FetchSchedule(newDate)
    /\ UNCHANGED <<schedule, scheduleId, loading, refreshing,
                   showAddModal, showDatePicker, newTask, alerts, schedules, generated>>

\* the date text is pressed
OpenDatePicker ==
    /\ ListUsable /\ ~showDatePicker
    /\ showDatePicker' = TRUE
    /\ UNCHANGED <<selectedDate, schedule, scheduleId, loading,
                   refreshing, showAddModal, newTask, alerts, net, schedules, generated>>

\* DateTimePicker onChange(event, date); picked is {} when dismissed, and
\* android is Platform.OS === 'android'
DatePickerChange(picked, android) ==
    /\ ListUsable /\ showDatePicker
    /\ showDatePicker' = android
    /\ IF picked = {}
       THEN UNCHANGED <<selectedDate, net>>
       ELSE /\ CanCall
            /\ selectedDate' = CHOOSE d \in picked : TRUE
            /\ FetchSchedule(CHOOSE d \in picked : TRUE)
    /\ UNCHANGED <<schedule, scheduleId, loading, refreshing,
                   showAddModal, newTask, alerts, schedules, generated>>

\* the add button, or "Add your first task"
OpenAddModal ==
    /\ ListUsable
    /\ showAddModal' = TRUE
    /\ UNCHANGED <<selectedDate, schedule, scheduleId, loading,
                   refreshing, showDatePicker, newTask, alerts, net, schedules,
                   generated>>

\* the modal's Cancel, or onRequestClose
CloseAddModal ==
    /\ showAddModal /\ alerts = <<>>
    /\ showAddModal' = FALSE
    /\ UNCHANGED <<selectedDate, schedule, scheduleId, loading,
                   refreshing, showDatePicker, newTask, alerts, net, schedules,
                   generated>>

\* the modal's inputs
EditTask(task) ==
    /\ showAddModal /\ alerts = <<>>
    /\ \/ \E t \in Titles : task = [newTask EXCEPT !.title = t]
       \/ \E c \in Categories : task = [newTask EXCEPT !.category = c]
       \/ \E t \in StartTimes : task = [newTask EXCEPT !.startTime = t]
       \/ \E t \in EndTimes : task = [newTask EXCEPT !.endTime = t]
    /\ newTask' = task
    /\ UNCHANGED <<selectedDate, schedule, scheduleId, loading,
                   refreshing, showAddModal, showDatePicker, alerts, net, schedules,
                   generated>>

\* addTask, up to `await scheduleService.updateSchedule(...)`
AddTaskNoValidation ==
    /\ showAddModal /\ alerts = <<>>
    /\ CanCall /\ generated < MaxGenerated
    /\ generated' = generated + 1
    /\ net' = Sent(UpdateScheduleCall(
                FormatDateForAPI(selectedDate),
                Append(schedule, NewBlock(newTask, GenerateBlockId(generated + 1)))))
    /\ UNCHANGED <<selectedDate, schedule, scheduleId, loading,
                   refreshing, showAddModal, showDatePicker, newTask, alerts, schedules>>
AddTaskPrepends ==
    /\ showAddModal /\ alerts = <<>>
    /\ IF Trim(newTask.title) = <<>>
       THEN /\ alerts' = Append(alerts, ErrorAlert("Please enter a task title"))
            /\ UNCHANGED <<net, generated>>
       ELSE /\ CanCall /\ generated < MaxGenerated
            /\ generated' = generated + 1
            /\ net' = Sent(UpdateScheduleCall(
                        FormatDateForAPI(selectedDate),
                        <<NewBlock(newTask, GenerateBlockId(generated + 1))>>
                          \o schedule))
            /\ UNCHANGED alerts
    /\ UNCHANGED <<selectedDate, schedule, scheduleId, loading,
                   refreshing, showAddModal, showDatePicker, newTask, schedules>>
AddTask ==
    /\ showAddModal /\ alerts = <<>>
    /\ IF Trim(newTask.title) = <<>>
       THEN /\ alerts' = Append(alerts, ErrorAlert("Please enter a task title"))
            /\ UNCHANGED <<net, generated>>
       ELSE /\ CanCall /\ generated < MaxGenerated
            /\ generated' = generated + 1
            /\ net' = Sent(UpdateScheduleCall(
                        FormatDateForAPI(selectedDate),
                        Append(schedule,
                               NewBlock(newTask, GenerateBlockId(generated + 1)))))
            /\ UNCHANGED alerts
    /\ UNCHANGED <<selectedDate, schedule, scheduleId, loading,
                   refreshing, showAddModal, showDatePicker, newTask, schedules>>

\* addTask after an updateSchedule that resolved: the server stored the list
UpdateScheduleResolves(c) ==
    /\ BagIn(c, net) /\ c.op = "updateSchedule"
    /\ net' = Settled(c)
    /\ LET updatedSchedule ==
             [_id |-> ScheduleIdOf(c.date), blocks |-> c.blocks]
       IN /\ schedules' = [schedules EXCEPT ![c.date] = {updatedSchedule}]
          /\ schedule' = updatedSchedule.blocks
          /\ scheduleId' = updatedSchedule._id
    /\ showAddModal' = FALSE
    /\ newTask' = DefaultTask
    /\ UNCHANGED <<selectedDate, loading, refreshing, showDatePicker,
                   alerts, generated>>

UpdateScheduleRejects(c) ==
    /\ BagIn(c, net) /\ c.op = "updateSchedule"
    /\ CanAlert
    /\ net' = Settled(c)
    /\ alerts' = Append(alerts, ErrorAlert("Failed to add task"))
    /\ UNCHANGED <<selectedDate, schedule, scheduleId, loading,
                   refreshing, showAddModal, showDatePicker, newTask, schedules,
                   generated>>

\* toggleTaskCompletion, up to `await scheduleService.updateScheduleBlock(...)`
ToggleTaskCompletion(blockId) ==
    /\ ListUsable
    /\ blockId \in BlockIds(schedule)
    /\ IF scheduleId = ""
       THEN UNCHANGED net
       ELSE /\ CanCall
            /\ net' = Sent(UpdateScheduleBlockCall(
                        scheduleId, blockId, ~FindBlock(schedule, blockId).completed))
    /\ UNCHANGED <<selectedDate, schedule, scheduleId, loading,
                   refreshing, showAddModal, showDatePicker, newTask, alerts, schedules,
                   generated>>

\* the server updated the block of the schedule with that id
UpdateScheduleBlockResolves(c) ==
    /\ BagIn(c, net) /\ c.op = "updateScheduleBlock"
    /\ \E k \in DatesOfId(schedules, c.scheduleId) :
         LET sc == CHOOSE x \in schedules[k] : TRUE
             blocks == SetCompleted(sc.blocks, c.blockId, c.completed)
         IN /\ c.blockId \in BlockIds(sc.blocks)
            /\ schedules' = [schedules EXCEPT ![k] = {[sc EXCEPT !.blocks = blocks]}]
            /\ schedule' = blocks
    /\ net' = Settled(c)
    /\ UNCHANGED <<selectedDate, scheduleId, loading, refreshing,
                   showAddModal, showDatePicker, newTask, alerts, generated>>

UpdateScheduleBlockRejects(c) ==
    /\ BagIn(c, net) /\ c.op = "updateScheduleBlock"
    /\ CanAlert
    /\ net' = Settled(c)
    /\ alerts' = Append(alerts, ErrorAlert("Failed to update task"))
    /\ UNCHANGED <<selectedDate, schedule, scheduleId, loading,
                   refreshing, showAddModal, showDatePicker, newTask, schedules,
                   generated>>

\* deleteTask: the confirmation dialog, holding this render's scheduleId
DeleteTask(blockId) ==
    /\ ListUsable /\ CanAlert
    /\ blockId \in BlockIds(schedule)
    /\ alerts' = Append(alerts, ConfirmDelete(blockId, scheduleId))
    /\ UNCHANGED <<selectedDate, schedule, scheduleId, loading,
                   refreshing, showAddModal, showDatePicker, newTask, net, schedules,
                   generated>>

\* the dialog's Cancel
PressCancel ==
    /\ alerts # <<>> /\ Head(alerts).kind = "confirm"
    /\ alerts' = Tail(alerts)
    /\ UNCHANGED <<selectedDate, schedule, scheduleId, loading,
                   refreshing, showAddModal, showDatePicker, newTask, net, schedules,
                   generated>>

\* the dialog's Delete: onPress, up to `await deleteScheduleBlock(...)`
PressDeleteNoGuard ==
    /\ alerts # <<>> /\ Head(alerts).kind = "confirm"
    /\ alerts' = Tail(alerts)
    /\ CanCall
    /\ net' = Sent(DeleteScheduleBlockCall(Head(alerts).scheduleId,
                                                  Head(alerts).blockId))
    /\ UNCHANGED <<selectedDate, schedule, scheduleId, loading,
                   refreshing, showAddModal, showDatePicker, newTask, schedules,
                   generated>>
PressDelete ==
    /\ alerts # <<>> /\ Head(alerts).kind = "confirm"
    /\ alerts' = Tail(alerts)
    /\ IF Head(alerts).scheduleId = ""
       THEN UNCHANGED net
       ELSE /\ CanCall
            /\ net' = Sent(DeleteScheduleBlockCall(Head(alerts).scheduleId,
                                                          Head(alerts).blockId))
    /\ UNCHANGED <<selectedDate, schedule, scheduleId, loading,
                   refreshing, showAddModal, showDatePicker, newTask, schedules,
                   generated>>

\* the server removed the block from the schedule with that id
DeleteScheduleBlockResolves(c) ==
    /\ BagIn(c, net) /\ c.op = "deleteScheduleBlock"
    /\ \E k \in DatesOfId(schedules, c.scheduleId) :
         LET sc == CHOOSE x \in schedules[k] : TRUE
             blocks == SelectBlocks(sc.blocks, c.blockId)
         IN /\ schedules' = [schedules EXCEPT ![k] = {[sc EXCEPT !.blocks = blocks]}]
            /\ schedule' = blocks
    /\ net' = Settled(c)
    /\ UNCHANGED <<selectedDate, scheduleId, loading, refreshing,
                   showAddModal, showDatePicker, newTask, alerts, generated>>

DeleteScheduleBlockRejects(c) ==
    /\ BagIn(c, net) /\ c.op = "deleteScheduleBlock"
    /\ CanAlert
    /\ net' = Settled(c)
    /\ alerts' = Append(alerts, ErrorAlert("Failed to delete task"))
    /\ UNCHANGED <<selectedDate, schedule, scheduleId, loading,
                   refreshing, showAddModal, showDatePicker, newTask, schedules,
                   generated>>

\* an error dialog's OK
DismissAlert ==
    /\ alerts # <<>> /\ Head(alerts).kind = "error"
    /\ alerts' = Tail(alerts)
    /\ UNCHANGED <<selectedDate, schedule, scheduleId, loading,
                   refreshing, showAddModal, showDatePicker, newTask, net, schedules,
                   generated>>

\* g1 is a milestone goal; g2, when it exists, is a numeric or a habit goal
InitStores ==
    {[g \in {"g1"} |-> InitialGoal(g, "milestone")]}
    \cup {[g \in GoalIds |-> InitialGoal(g, IF g = "g1" THEN "milestone" ELSE t)]
             : t \in {"numeric", "habit"}}

Init ==
    /\ db \in InitStores
    /\ reqs = [r \in {"r1"} |-> Idle]
    /\ ScreenInit

\* a client sends a request
Request(r) ==
    /\ reqs[r].pc = "idle"
    /\ \E m \in Methods, t \in Tokens, i \in RequestIds, b \in Bodies :
         reqs' = [reqs EXCEPT ![r] =
                    [Idle EXCEPT !.pc = "arrived", !.method = m, !.token = t,
                                 !.id = i, !.body = b]]
    /\ UNCHANGED db

\* verifyToken(handler): inject req.userId and call the handler, or short-circuit
VerifyToken(r) ==
    /\ reqs[r].pc = "arrived"
    /\ IF reqs[r].token \in Users
       THEN reqs' = [reqs EXCEPT ![r].pc = "handler",
                                 ![r].userId = {reqs[r].token}]
       ELSE reqs' = [reqs EXCEPT ![r].pc = "done", ![r].res = AuthError]
    /\ UNCHANGED db

\* handler, up to `await connectDB()`
HandlerEntryNoGate(r) ==
    /\ reqs[r].pc = "handler"
    /\ IF reqs[r].method = "OPTIONS"
       THEN reqs' = [reqs EXCEPT ![r].pc = "done", ![r].res = PreflightResponse]
       ELSE reqs' = [reqs EXCEPT ![r].pc = "connecting",
                                 ![r].calls = <<"connectDB">>]
    /\ UNCHANGED db
HandlerEntry(r) ==
    /\ reqs[r].pc = "handler"
    /\ IF reqs[r].method = "OPTIONS"
       THEN reqs' = [reqs EXCEPT ![r].pc = "done", ![r].res = PreflightResponse]
       ELSE IF reqs[r].method # "PUT"
       THEN reqs' = [reqs EXCEPT ![r].pc = "done", ![r].res = MethodNotAllowed]
       ELSE reqs' = [reqs EXCEPT ![r].pc = "connecting",
                                 ![r].calls = <<"connectDB">>]
    /\ UNCHANGED db

\* catch (error): res.status(500).json({ error, details: error.message })
Catch(r, e) ==
    reqs' = [reqs EXCEPT ![r].pc = "done", ![r].raised = {e},
                         ![r].res = ServerError(e)]

\* handler, from `await connectDB()` to `await Goal.findOne(...)`
ConnectDB(r) ==
    /\ reqs[r].pc = "connecting"
    /\ \/ reqs' = [reqs EXCEPT ![r].pc = "finding",
                               ![r].calls = Append(@, "findOne")]
       \/ \E e \in ConnectErrors :
            Catch(r, e)
    /\ UNCHANGED db

\* `await Goal.findOne(...)` settles; the handler runs on to `await goal.save()`
Lookup(r) ==
    /\ reqs[r].pc = "finding"
    /\ \/ LET found == FindOne(db, reqs[r].id, CHOOSE u \in reqs[r].userId : TRUE)
          IN IF found = {}
             THEN reqs' = [reqs EXCEPT ![r].pc = "done", ![r].res = NotFound]
             ELSE LET goal == CHOOSE g \in found : TRUE
                  IN reqs' = [reqs EXCEPT
                        ![r].pc = "saving",
                        ![r].loaded = {goal},
                        ![r].updated = {ApplyUpdate(goal, reqs[r].body)},
                        ![r].calls = Append(@, "save")]
       \/ \E e \in FindErrors : Catch(r, e)
    /\ UNCHANGED db

\* what goal.save() writes: the modified paths and, for numeric/habit goals,
\* the progress the persistence hook derives (p)
PersistFirstWins(store, id, loaded, updated, p) ==
    IF store[id] # loaded THEN store
    ELSE [store EXCEPT ![id] = [updated EXCEPT !.progress =
            IF updated.type \in {"numeric", "habit"} THEN p ELSE @]]
Persist(store, id, loaded, updated, p) ==
    LET paths == ModifiedPaths(loaded, updated)
        written == [f \in DOMAIN store[id] |->
                      IF f \in paths THEN updated[f] ELSE store[id][f]]
    IN [store EXCEPT ![id] =
          IF updated.type \in {"numeric", "habit"}
          THEN [written EXCEPT !.progress = p] ELSE written]

\* the document the handler holds once save() has run its hook
Saved(updated, p) ==
    IF updated.type \in {"numeric", "habit"}
    THEN [updated EXCEPT !.progress = p] ELSE updated

\* `await goal.save()` settles; the handler answers
Save(r) ==
    /\ reqs[r].pc = "saving"
    /\ LET loaded == CHOOSE g \in reqs[r].loaded : TRUE
           updated == CHOOSE g \in reqs[r].updated : TRUE
       IN \/ \E p \in DerivedProgress :
               /\ db' = Persist(db, reqs[r].id, loaded, updated, p)
               /\ reqs' = [reqs EXCEPT
                     ![r].pc = "done",
                     ![r].res = Updated(Saved(updated, p))]
          \/ \E e \in SaveErrors : Catch(r, e) /\ UNCHANGED db

\* the response has been sent; the slot serves the next request
Finish(r) ==
    /\ reqs[r].pc = "done"
    /\ reqs' = [reqs EXCEPT ![r] = Idle]
    /\ UNCHANGED db

Requests == (\E r \in DOMAIN reqs : Request(r)) /\ UNCHANGED screenVars
VerifyTokens == (\E r \in DOMAIN reqs : VerifyToken(r)) /\ UNCHANGED screenVars
HandlerEntries == (\E r \in DOMAIN reqs : HandlerEntry(r)) /\ UNCHANGED screenVars
ConnectDBs == (\E r \in DOMAIN reqs : ConnectDB(r)) /\ UNCHANGED screenVars
Lookups == (\E r \in DOMAIN reqs : Lookup(r)) /\ UNCHANGED screenVars
Saves == (\E r \in DOMAIN reqs : Save(r)) /\ UNCHANGED screenVars
Finishes == (\E r \in DOMAIN reqs : Finish(r)) /\ UNCHANGED screenVars

Next ==
    \/ Requests
    \/ VerifyTokens
    \/ HandlerEntries
    \/ ConnectDBs
    \/ Lookups
    \/ Saves
    \/ Finishes

Spec == Init /\ [][Next]_vars

\* two requests in flight at once, both PUT by the owner, one field each
ConcBodies == {b \in Bodies : (b.currentValue = {}) # (b.progress = {})}

ConcInit ==
    /\ db = [g \in GoalIds |-> InitialGoal(g, IF g = "g1" THEN "milestone" ELSE "numeric")]
    /\ reqs = [r \in Slots |-> Idle]
    /\ ScreenInit

ConcRequest(r) ==
    /\ reqs[r].pc = "idle"
    /\ \E i \in GoalIds, b \in ConcBodies :
         reqs' = [reqs EXCEPT ![r] =
                    [Idle EXCEPT !.pc = "arrived", !.method = "PUT", !.token = "u1",
                                 !.id = i, !.body = b]]
    /\ UNCHANGED db

ConcRequests == (\E r \in DOMAIN reqs : ConcRequest(r)) /\ UNCHANGED screenVars

ConcNext ==
    \/ ConcRequests
    \/ VerifyTokens
    \/ HandlerEntries
    \/ ConnectDBs
    \/ Lookups
    \/ Saves
    \/ Finishes

ConcSpec == ConcInit /\ [][ConcNext]_vars

(***************************************************************************)
(* The schedule screen in use                                              *)
(***************************************************************************)
ScreenInitial ==
    /\ db = [g \in {"g1"} |-> InitialGoal(g, "milestone")]
    /\ reqs = [r \in {"r1"} |-> Idle]
    /\ ScreenInit

GetScheduleSettles ==
    /\ \E c \in BagToSet(net) : GetScheduleResolves(c) \/ GetScheduleRejects(c)
    /\ UNCHANGED serverVars
UpdateScheduleSettles ==
    /\ \E c \in BagToSet(net) : UpdateScheduleResolves(c) \/ UpdateScheduleRejects(c)
    /\ UNCHANGED serverVars
UpdateScheduleBlockSettles ==
    /\ \E c \in BagToSet(net) :
         UpdateScheduleBlockResolves(c) \/ UpdateScheduleBlockRejects(c)
    /\ UNCHANGED serverVars
DeleteScheduleBlockSettles ==
    /\ \E c \in BagToSet(net) :
         DeleteScheduleBlockResolves(c) \/ DeleteScheduleBlockRejects(c)
    /\ UNCHANGED serverVars
Refreshes == OnRefresh /\ UNCHANGED serverVars
Navigates == (\E dir \in {"prev", "next"} : NavigateDate(dir)) /\ UNCHANGED serverVars
PickerOpens == OpenDatePicker /\ UNCHANGED serverVars
PickerChanges ==
    /\ \E picked \in {{}} \cup {{d} : d \in Dates}, android \in BOOLEAN :
         DatePickerChange(picked, android)
    /\ UNCHANGED serverVars
ModalOpens == OpenAddModal /\ UNCHANGED serverVars
ModalCloses == CloseAddModal /\ UNCHANGED serverVars
Edits ==
    /\ \E task \in [title : Titles, category : Categories, startTime : StartTimes,
                    endTime : EndTimes] : EditTask(task)
    /\ UNCHANGED serverVars
AddTasks == AddTask /\ UNCHANGED serverVars
Toggles ==
    /\ \E b \in BlockIds(schedule) : ToggleTaskCompletion(b)
    /\ UNCHANGED serverVars
DeleteTasks == (\E b \in BlockIds(schedule) : DeleteTask(b)) /\ UNCHANGED serverVars
Cancels == PressCancel /\ UNCHANGED serverVars
Deletes == PressDelete /\ UNCHANGED serverVars
Dismisses == DismissAlert /\ UNCHANGED serverVars

ScreenNext ==
    \/ GetScheduleSettles
    \/ UpdateScheduleSettles
    \/ UpdateScheduleBlockSettles
    \/ DeleteScheduleBlockSettles
    \/ Refreshes
    \/ Navigates
    \/ PickerOpens
    \/ PickerChanges
    \/ ModalOpens
    \/ ModalCloses
    \/ Edits
    \/ AddTasks
    \/ Toggles
    \/ DeleteTasks
    \/ Cancels
    \/ Deletes
    \/ Dismisses

ScreenSpec == ScreenInitial /\ [][ScreenNext]_vars

(***************************************************************************)
(* Claims about the progress endpoint                                      *)
(***************************************************************************)
Done(r) == reqs[r].pc = "done"
TheOne(S) == CHOOSE x \in S : TRUE
\* the request named r changes in this step
Steps(r) == reqs'[r] # reqs[r]
\* a PUT by an authenticated caller whose id names no goal of the caller's
Foreign(r) ==
    /\ reqs[r].method = "PUT"
    /\ reqs[r].userId # {}
    /\ \/ reqs[r].id \notin DOMAIN db
       \/ db[reqs[r].id].userId \notin reqs[r].userId
Touched(r) == reqs[r].loaded # {} \/ "save" \in Range(reqs[r].calls)
EmptyOk(res) ==
    /\ res.status = 200 /\ res.cors
    /\ res.error = "" /\ res.details = "" /\ res.message = "" /\ res.goal = {}
Is405(res) ==
    /\ res.status = 405 /\ res.cors /\ res.error = "Method not allowed"
    /\ res.details = "" /\ res.message = "" /\ res.goal = {}
Is404(res) ==
    /\ res.status = 404 /\ res.error = "Goal not found"
    /\ res.details = "" /\ res.message = "" /\ res.goal = {}

\* C1: a milestone goal's PUT with a numeric progress p stores min(max(p,0),100)
\* (150 is stored as 100, -20 as 0), and every stored milestone progress is
\* within [0,100].
C1_MilestoneProgressClamped ==
    /\ \A r \in DOMAIN reqs :
         (/\ Done(r) /\ reqs[r].res.status = 200
          /\ reqs[r].loaded # {} /\ TheOne(reqs[r].loaded).type = "milestone"
          /\ reqs[r].body.progress # {})
         => LET p == TheOne(reqs[r].body.progress)
                stored == db[reqs[r].id].progress
            IN /\ p < 0 => stored = 0
               /\ p > 100 => stored = 100
               /\ (0 <= p /\ p <= 100) => stored = p
               /\ TheOne(reqs[r].res.goal).progress = stored
    /\ \A g \in DOMAIN db :
         db[g].type = "milestone" => (0 <= db[g].progress /\ db[g].progress <= 100)

C1_Witness ==
    \E r \in DOMAIN reqs :
        /\ Done(r) /\ reqs[r].res.status = 200
        /\ reqs[r].id \in DOMAIN db /\ db[reqs[r].id].type = "milestone"
        /\ reqs[r].body.progress = {150}
        /\ db[reqs[r].id].progress = 100

\* what holds of a request whose id names no goal of its caller's
C2_ForeignInv ==
    \A r \in DOMAIN reqs :
        Foreign(r) =>
          /\ ~Touched(r)
          /\ reqs[r].pc # "saving"
          /\ Done(r) =>
                \/ Is404(reqs[r].res)
                \/ /\ reqs[r].res.status = 500
                   /\ reqs[r].res.details \in ConnectErrors \cup FindErrors
                   /\ reqs[r].res.goal = {}
\* C2: a PUT naming another user's goal is answered exactly as one naming no
\* goal: 404 {error: "Goal not found"} (or, on a connection or lookup
\* failure, the same 500 either way), and it loads, modifies and saves nothing.
C2_ForeignGoalIsNotFound ==
    /\ []C2_ForeignInv
    /\ [][\A r \in DOMAIN reqs : (Foreign(r) /\ Steps(r)) => db' = db]_vars

C2_Witness ==
    \E r \in DOMAIN reqs :
        /\ Done(r) /\ reqs[r].method = "PUT" /\ reqs[r].token = "u2"
        /\ reqs[r].id \in DOMAIN db /\ db[reqs[r].id].userId = "u1"
        /\ Is404(reqs[r].res)

\* C3 as stated: every non-PUT request the handler answers gets 405
\* {error: "Method not allowed"}.
C3_NonPutAlways405 ==
    \A r \in DOMAIN reqs :
        (Done(r) /\ reqs[r].userId # {} /\ reqs[r].method # "PUT")
        => Is405(reqs[r].res)

\* what holds of a request whose verb is not PUT
C3_NonPutInv ==
    \A r \in DOMAIN reqs :
        (reqs[r].method # "PUT" /\ reqs[r].pc # "idle") =>
          /\ reqs[r].calls = <<>> /\ reqs[r].loaded = {}
          /\ reqs[r].pc \in {"arrived", "handler", "done"}
          /\ (Done(r) /\ reqs[r].userId # {} /\ reqs[r].method # "OPTIONS")
             => Is405(reqs[r].res)
\* C3 as amended: a request that passes verifyToken with a verb other than PUT
\* and OPTIONS gets 405 {error: "Method not allowed"} whatever its body; no
\* non-PUT request ever calls the database, loads a goal or changes the store.
C3_OtherVerbs405 ==
    /\ []C3_NonPutInv
    /\ [][\A r \in DOMAIN reqs :
            (reqs[r].method \notin {"", "PUT"} /\ Steps(r)) => db' = db]_vars

C3_Witness ==
    \E r \in DOMAIN reqs :
        /\ Done(r) /\ reqs[r].method = "GET" /\ reqs[r].id \in DOMAIN db
        /\ reqs[r].body.currentValue # {} /\ reqs[r].body.progress # {}
        /\ Is405(reqs[r].res)

\* C4: every OPTIONS request is answered with an empty 200 carrying the CORS
\* headers, whatever its token (absent, invalid or valid), and touches no goal.
C4_OptionsAlwaysEmpty200 ==
    \A r \in DOMAIN reqs :
        (Done(r) /\ reqs[r].method = "OPTIONS")
        => (EmptyOk(reqs[r].res) /\ ~Touched(r))

\* C5: for a numeric or habit goal of the caller, a supplied currentValue is
\* stored, an omitted one leaves the stored value as it was, the handler never
\* assigns progress (even when the body carries one), and the answer is 200
\* unless the save itself fails.
C5_ValueGoalUpdate ==
    \A r \in DOMAIN reqs :
        (reqs[r].loaded # {} /\ TheOne(reqs[r].loaded).type \in {"numeric", "habit"})
        => LET loaded == TheOne(reqs[r].loaded)
               updated == TheOne(reqs[r].updated)
               want == IF reqs[r].body.currentValue # {}
                       THEN TheOne(reqs[r].body.currentValue)
                       ELSE loaded.currentValue
           IN /\ updated.currentValue = want
              /\ updated.progress = loaded.progress
              /\ Done(r) =>
                    \/ /\ reqs[r].res.status = 200
                       /\ db[reqs[r].id].currentValue = want
                       /\ TheOne(reqs[r].res.goal).currentValue = want
                    \/ /\ reqs[r].res.status = 500
                       /\ reqs[r].raised \subseteq SaveErrors
                       /\ db[reqs[r].id].currentValue = loaded.currentValue

C5_Witness ==
    \E r \in DOMAIN reqs :
        /\ Done(r) /\ reqs[r].res.status = 200
        /\ reqs[r].loaded # {} /\ TheOne(reqs[r].loaded).type = "habit"
        /\ reqs[r].body.currentValue = {0} /\ reqs[r].body.progress = {150}
        /\ TheOne(reqs[r].loaded).currentValue = 1
        /\ db[reqs[r].id].currentValue = 0

\* what holds of every request as to failures, answers and repeated calls
C6_FailureInv ==
    \A r \in DOMAIN reqs :
        /\ reqs[r].raised # {} =>
              /\ Done(r)
              /\ reqs[r].res.status = 500 /\ reqs[r].res.error = "Server error"
              /\ reqs[r].res.details = TheOne(reqs[r].raised)
              /\ reqs[r].res.goal = {} /\ reqs[r].res.message = ""
        /\ \A i, j \in DOMAIN reqs[r].calls :
              reqs[r].calls[i] = reqs[r].calls[j] => i = j
        /\ Done(r) => reqs[r].res.status # 0
        /\ reqs[r].pc \in {"arrived", "handler", "connecting", "finding", "saving"}
              => ENABLED (VerifyToken(r) \/ HandlerEntry(r) \/ ConnectDB(r)
                          \/ Lookup(r) \/ Save(r))
\* C6: a failure of the connection, the lookup or the save is answered with
\* 500 {error: "Server error", details: <its message>}; a request is always
\* either answered or able to proceed; no database call is issued twice; and
\* a failed save leaves the store as it was.
C6_FailuresAnswered500 ==
    /\ []C6_FailureInv
    /\ [][\A r \in DOMAIN reqs :
            (reqs[r].raised = {} /\ reqs'[r].raised # {}) => db' = db]_vars

C6_Witness ==
    \E r \in DOMAIN reqs :
        /\ Done(r) /\ reqs[r].raised \subseteq SaveErrors /\ reqs[r].raised # {}
        /\ reqs[r].res.status = 500
        /\ reqs[r].updated # reqs[r].loaded
        /\ db[reqs[r].id] = TheOne(reqs[r].loaded)

\* C10: no version check guards the save: whenever a save succeeds the store
\* holds that request's values on the paths it changed, however stale the
\* document it loaded, so of two interleaved updates the one saved last wins.
C10_LastWriteWins ==
    [][\A r \in DOMAIN reqs :
        (reqs[r].pc = "saving" /\ reqs'[r].pc = "done" /\ reqs'[r].res.status = 200)
        => LET loaded == TheOne(reqs[r].loaded)
               field == IF loaded.type = "milestone" THEN "progress" ELSE "currentValue"
               given == IF field = "progress"
                        THEN {Min(Max(p, 0), 100) : p \in reqs[r].body.progress}
                        ELSE reqs[r].body.currentValue
           IN /\ (given # {} /\ given # {loaded[field]}) =>
                   db'[reqs[r].id][field] \in given
              /\ reqs'[r].res.message = "Progress updated successfully"]_vars

\* both requests loaded the same stored document, both were answered 200 with
\* different values, and the store holds only r2's
C10_Witness ==
    /\ DOMAIN reqs = Slots
    /\ Done("r1") /\ Done("r2")
    /\ reqs["r1"].res.status = 200 /\ reqs["r2"].res.status = 200
    /\ reqs["r1"].id = "g1" /\ reqs["r2"].id = "g1"
    /\ reqs["r1"].loaded = reqs["r2"].loaded
    /\ TheOne(reqs["r1"].loaded).progress = 50
    /\ reqs["r1"].body.progress = {-20} /\ reqs["r2"].body.progress = {150}
    /\ TheOne(reqs["r1"].res.goal).progress = 0
    /\ TheOne(reqs["r2"].res.goal).progress = 100
    /\ db["g1"].progress = 100

(***************************************************************************)
(* Claims about the schedule screen                                        *)
(***************************************************************************)
\* empty, or spaces only
Blank(title) == \A i \in DOMAIN title : title[i] = " "
\* the calls of one operation awaiting their result
Calls(bag, op) == {c \in BagToSet(bag) : c.op = op}
\* call c is issued in this step
Issued(c) == CopiesIn(c, net') > CopiesIn(c, net)
\* call c settles in this step
Settles(c) == BagIn(c, net) /\ net' = net (-) SetToBag({c})

\* C7: add-task with an empty or all-whitespace title issues no request and
\* queues the validation alert, leaving the block list, the schedule id, the
\* form and the modal as they were.
C7_BlankTitleSendsNothing ==
    [][/\ (AddTask /\ Blank(newTask.title)) =>
            /\ net' = net
            /\ alerts' = Append(alerts, ErrorAlert("Please enter a task title"))
            /\ UNCHANGED <<schedule, scheduleId, newTask, showAddModal, schedules>>
       /\ Blank(newTask.title) =>
            \A c \in Calls(net', "updateSchedule") : ~Issued(c)]_vars

C7_Witness ==
    /\ showAddModal
    /\ newTask.title = <<" ", " ">>
    /\ alerts # <<>> /\ Head(alerts).message = "Please enter a task title"
    /\ Calls(net, "updateSchedule") = {}

\* a delete call is issued only by pressing Delete on the dialog opened for
\* that block, and Cancel issues nothing and leaves the list alone
C8_OnlyAfterConfirm ==
    /\ \A c \in Calls(net', "deleteScheduleBlock") :
         Issued(c) =>
           /\ alerts # <<>> /\ Head(alerts).kind = "confirm"
           /\ Head(alerts).blockId = c.blockId
           /\ Head(alerts).scheduleId = c.scheduleId
           /\ c.scheduleId # ""
           /\ alerts' = Tail(alerts)
    /\ PressCancel => (net' = net /\ schedule' = schedule /\ schedules' = schedules)
    /\ (alerts # <<>> /\ Head(alerts).kind = "confirm" /\ alerts' = alerts) =>
         \A c \in Calls(net', "deleteScheduleBlock") : ~Issued(c)

\* C8 as stated: as above, and pressing Delete issues nothing when the screen
\* remembers no schedule id (scheduleId is empty) at that moment.
C8_NoRequestWithoutRememberedId ==
    [][/\ C8_OnlyAfterConfirm
       /\ (PressDelete /\ scheduleId = "") => net' = net]_vars

\* C8 as amended: as above, and pressing Delete issues nothing when the
\* schedule id was empty when the dialog was opened (the value its handler
\* holds), whatever the screen remembers by then.
C8_NoRequestWithoutCapturedId ==
    [][/\ C8_OnlyAfterConfirm
       /\ (PressDelete /\ Head(alerts).scheduleId = "") => net' = net]_vars

C8_Witness ==
    \E c \in Calls(net, "deleteScheduleBlock") :
        /\ c.blockId = "b1" /\ c.scheduleId = "s1"
        /\ alerts = <<>>

\* C9: a fetch that succeeds replaces the block list and the schedule id by
\* the response's (empty when absent); one that fails leaves both as they
\* were and queues an alert; either way loading and refreshing end up false.
C9_FetchOutcome ==
    [][\A c \in Calls(net, "getSchedule") :
         Settles(c) =>
           /\ loading' = FALSE /\ refreshing' = FALSE
           /\ \/ /\ alerts' = alerts
                 /\ schedule' = (IF schedules[c.date] = {} THEN <<>>
                                 ELSE TheOne(schedules[c.date]).blocks)
                 /\ scheduleId' = (IF schedules[c.date] = {} THEN ""
                                   ELSE TheOne(schedules[c.date])._id)
              \/ /\ alerts' = Append(alerts, ErrorAlert("Failed to load schedule"))
                 /\ schedule' = schedule
                 /\ scheduleId' = scheduleId]_vars

\* a fetch has just failed on a screen that shows a schedule
C9_Witness ==
    /\ alerts # <<>> /\ Head(alerts).message = "Failed to load schedule"
    /\ schedule # <<>> /\ scheduleId = "s1"
    /\ ~loading /\ ~refreshing

\* add-task whose title passes titleOk issues exactly one updateSchedule call,
\* for the selected date, with the local list and the new block appended last
C11_Sends(titleOk) ==
    (AddTask /\ titleOk) =>
      \E c \in Calls(net', "updateSchedule") :
        /\ net' = net (+) SetToBag({c})
        /\ c.date = FormatDateForAPI(selectedDate)
        /\ Len(c.blocks) = Len(schedule) + 1
        /\ SubSeq(c.blocks, 1, Len(schedule)) = schedule
        /\ LET newBlock == c.blocks[Len(c.blocks)]
           IN /\ newBlock.id \notin BlockIds(schedule)
              /\ newBlock.completed = FALSE
              /\ newBlock.title = newTask.title
              /\ newBlock.category = newTask.category
              /\ newBlock.startTime = newTask.startTime
              /\ newBlock.endTime = newTask.endTime
        /\ UNCHANGED <<schedule, scheduleId, showAddModal, newTask, alerts>>

\* the outcome of an updateSchedule call: the server's response replaces the
\* list and the id, the modal closes and the form is reset; or nothing of
\* these changes and an alert is queued
C11_Outcome ==
    \A c \in Calls(net, "updateSchedule") :
      Settles(c) =>
        \/ /\ schedules'[c.date] # {}
           /\ TheOne(schedules'[c.date]).blocks = c.blocks
           /\ schedule' = TheOne(schedules'[c.date]).blocks
           /\ scheduleId' = TheOne(schedules'[c.date])._id
           /\ showAddModal' = FALSE
           /\ newTask' = DefaultTask
           /\ alerts' = alerts
        \/ /\ UNCHANGED <<schedule, scheduleId, showAddModal, newTask, schedules>>
           /\ alerts' = Append(alerts, ErrorAlert("Failed to add task"))

\* C11 as stated: add-task with a non-empty title sends one whole-schedule
\* update for the selected date, the local list with the new block (fresh id,
\* not completed) appended last; success replaces list and id by the response,
\* closes the modal and resets the form; failure changes none and alerts.
C11_NonEmptyTitleSendsUpdate ==
    [][C11_Sends(newTask.title # <<>>) /\ C11_Outcome]_vars

\* C11 as amended: the same of a title that is non-empty once trimmed
C11_NonBlankTitleSendsUpdate ==
    [][C11_Sends(Trim(newTask.title) # <<>>) /\ C11_Outcome]_vars

\* a task was added to the list of day 1: the list ends with the new block,
\* the modal is closed and the form is back to its defaults
C11_Witness ==
    /\ selectedDate = 1 /\ scheduleId = ScheduleIdOf(FormatDateForAPI(1))
    /\ Len(schedule) = 2
    /\ schedule[1].id = "b1" /\ schedule[2].id = GenerateBlockId(1)
    /\ schedule[2].title = <<" ", "a">> /\ ~schedule[2].completed
    /\ TheOne(schedules[FormatDateForAPI(1)]).blocks = schedule
    /\ ~showAddModal /\ newTask = DefaultTask
    /\ net = EmptyBag

\* what the server holds for a date: its block list and its schedule id
StoredBlocks(st, d) ==
    IF st[FormatDateForAPI(d)] = {} THEN <<>>
    ELSE TheOne(st[FormatDateForAPI(d)]).blocks
StoredId(st, d) ==
    IF st[FormatDateForAPI(d)] = {} THEN ""
    ELSE TheOne(st[FormatDateForAPI(d)])._id

\* C12: whatever the interleaving of date changes, refreshes, toggles, adds
\* and deletes with their responses, when the last request in flight is
\* answered with success (no alert is queued by the step) the block list on
\* display and the remembered schedule id are those of the selected date.
C12_SettledShowsSelectedDate ==
    [][(net # EmptyBag /\ net' = EmptyBag /\ alerts' = alerts) =>
          /\ schedule' = StoredBlocks(schedules', selectedDate')
          /\ scheduleId' = StoredId(schedules', selectedDate')]_vars

====
